---- MODULE Spec2Model ----
(***************************************************************************)
(* A model of sql-unit: the comment extractor (annotations.py), the mock   *)
(* schema, the literal pipe-table parser, the test-case model and the      *)
(* compiler (model.py), and the scalar encoders (utils.py).                *)
(*                                                                         *)
(* Text is modelled as a sequence of string pieces whose concatenation is  *)
(* the text (SQL output, source code), or as a sequence of one-character   *)
(* strings (the comment extractor).  A Python dict is a sequence of        *)
(* <<key, value>> pairs with distinct keys, in insertion order.  A call    *)
(* that can raise returns a record [ok, err, val].                         *)
(***************************************************************************)
EXTENDS Integers, Sequences, FiniteSets, TLC

VARIABLES
    pc,          \* the last operation that ran
    table_str,   \* YAMLTable.from_string: the table_str argument (lines)
    schema_arg,  \* YAMLTable.from_string: the schema argument (dict or None)
    table,       \* result of YAMLTable.from_string
    selects,     \* result of YAMLTable.as_unioned_selects on that table
    segments,    \* how the template text was written: text and comment segments
    template,    \* get_comments: the template_str argument (characters)
    comments,    \* result of get_comments
    file,        \* the source file of a SQLUnitSource: [annotation, code]
    schema_res,  \* result of SQLUnitSource.mock_schema
    cases_res,   \* result of SQLUnitSource.test_cases
    item,        \* SQLUnitTestCase.from_yaml_item: the <<key, value>> arguments
    case_res,    \* result of SQLUnitTestCase.from_yaml_item
    compiled,    \* result of SQLUnitTestCase.compile on that case
    schema_root, \* the root of a SQLUnitMockSchema: <<name, mock>> pairs
    defaults,    \* result of SQLUnitMockSchema.default_values on that schema
    obj_arg,     \* native_to_sql: the obj argument
    sql          \* result of native_to_sql

tableVars == <<table_str, schema_arg, table, selects>>
commentVars == <<segments, template, comments>>
sourceVars == <<file, schema_res, cases_res, item, case_res, compiled>>
defaultVars == <<schema_root, defaults>>
encodeVars == <<obj_arg, sql>>
vars == <<pc, tableVars, commentVars, sourceVars, defaultVars, encodeVars>>

--------------------------------------------------------------------------
(* Sequences and Python dicts *)

\* an optional dict: None, or Some(d)
NoneDict == [some |-> FALSE, d |-> <<>>]
Some(d) == [some |-> TRUE, d |-> d]

Range(s) == {s[i] : i \in 1..Len(s)}

\* F applied to the value of x, with x evaluated once (a local variable of the code)
With(x, F(_)) == CHOOSE r \in {F(v) : v \in {x}} : TRUE

RECURSIVE Flatten(_)
Flatten(ss) == IF ss = <<>> THEN <<>> ELSE Head(ss) \o Flatten(Tail(ss))

\* sep.join(parts), parts a sequence of texts, sep a text
RECURSIVE Join(_, _)
Join(parts, sep) ==
    IF parts = <<>> THEN <<>>
    ELSE IF Len(parts) = 1 THEN parts[1]
    ELSE parts[1] \o sep \o Join(Tail(parts), sep)

Count(s, x) == Cardinality({i \in 1..Len(s) : s[i] = x})

DictKeys(d) == [i \in 1..Len(d) |-> d[i][1]]
DictValues(d) == [i \in 1..Len(d) |-> d[i][2]]
DictHas(d, k) == \E i \in 1..Len(d) : d[i][1] = k
DictGet(d, k) == d[CHOOSE i \in 1..Len(d) : d[i][1] = k][2]
\* d[k] = v: an existing key keeps its position, a new key is appended
DictSet(d, k, v) ==
    With(<<d, k, v>>, LAMBDA a :
        IF DictHas(a[1], a[2])
        THEN [i \in 1..Len(a[1]) |-> IF a[1][i][1] = a[2] THEN <<a[2], a[3]>> ELSE a[1][i]]
        ELSE Append(a[1], <<a[2], a[3]>>))
\* d |= e
RECURSIVE DictUpdate(_, _)
DictUpdate(d, e) ==
    With(<<d, e>>, LAMBDA a :
        IF a[2] = <<>> THEN a[1]
        ELSE DictUpdate(DictSet(a[1], Head(a[2])[1], Head(a[2])[2]), Tail(a[2])))
\* {k: v for k, v in pairs}
DictOf(pairs) == DictUpdate(<<>>, pairs)
\* zip(a, b)
Zip(a, b) ==
    LET n == IF Len(a) < Len(b) THEN Len(a) ELSE Len(b)
    IN  [i \in 1..n |-> <<a[i], b[i]>>]

Ok(v) == [ok |-> TRUE, err |-> "none", val |-> v]
Raise(e, v) == [ok |-> FALSE, err |-> e, val |-> v]

--------------------------------------------------------------------------
(* utils.py: native values are records [t, v] *)

\* v holds str(obj), the text Python prints for the value
PyInt(n) == [t |-> "int", v |-> ToString(n)]
PyFloat(s) == [t |-> "float", v |-> s]
PyStr(s) == [t |-> "str", v |-> s]
PyBool(b) == [t |-> "bool", v |-> IF b THEN "True" ELSE "False"]
PyNone == [t |-> "NoneType", v |-> "None"]
PyDate(s) == [t |-> "date", v |-> s]
\* a list of scalars: items holds the elements
PyList(xs) == [t |-> "list", v |-> "list", items |-> xs]

RECURSIVE JoinStr(_, _)
JoinStr(parts, sep) ==
    IF parts = <<>> THEN ""
    ELSE IF Len(parts) = 1 THEN parts[1]
    ELSE parts[1] \o sep \o JoinStr(Tail(parts), sep)

\* native_to_sql: the isinstance chain in the order the code tests it; bool is a
\* subclass of int, so the (int, float) branch takes a bool before the bool branch
RECURSIVE native_to_sql(_)
native_to_sql(obj) ==
    IF obj.t = "str" THEN Ok("'" \o obj.v \o "'")
    ELSE IF obj.t \in {"int", "float", "bool"} THEN Ok(obj.v)
    ELSE IF obj.t = "NoneType" THEN Ok("null")
    ELSE IF obj.t = "list" THEN
        LET rs == [i \in 1..Len(obj.items) |-> native_to_sql(obj.items[i])]
        IN  IF \E i \in 1..Len(rs) : ~rs[i].ok THEN Raise("TypeError", "")
            ELSE Ok("[" \o JoinStr([i \in 1..Len(rs) |-> rs[i].val], ", ") \o "]")
    ELSE Raise("TypeError", "")

native_to_sql_typedef(typ) ==
    IF typ = "str" THEN Ok("string")
    ELSE IF typ = "int" THEN Ok("int")
    ELSE IF typ = "float" THEN Ok("float")
    ELSE IF typ = "list" THEN Ok("array")
    ELSE IF typ = "bool" THEN Ok("boolean")
    ELSE IF typ = "NoneType" THEN Ok("null")
    ELSE Raise("TypeError", "")

--------------------------------------------------------------------------
(* model.py: YAMLTable *)

\* A table string is a sequence of lines.  A line is [kind, cells]:
\*   "header": cells are header cells [name, ann], written name or name::ann
\*   "sep":    only the characters | - and space
\*   "data":   cells are the values yaml.safe_load gives for the cell texts
\*   "blank":  only whitespace
HeaderLine(cells) == [kind |-> "header", cells |-> cells]
SepLine == [kind |-> "sep", cells |-> <<>>]
DataLine(values) == [kind |-> "data", cells |-> values]
BlankLine == [kind |-> "blank", cells |-> <<>>]

\* the text of a header cell
CellText(c) == IF c.ann = "" THEN c.name ELSE c.name \o "::" \o c.ann

\* str.strip() then splitlines(): blank lines at either end go
RECURSIVE LStripLines(_)
LStripLines(ls) ==
    IF ls # <<>> /\ Head(ls).kind = "blank" THEN LStripLines(Tail(ls)) ELSE ls
RECURSIVE RStripLines(_)
RStripLines(ls) ==
    IF ls # <<>> /\ ls[Len(ls)].kind = "blank"
    THEN RStripLines(SubSeq(ls, 1, Len(ls) - 1)) ELSE ls
StripLines(ls) == RStripLines(LStripLines(ls))

NoTable == [rows |-> <<>>, columns |-> <<>>]

\* validate_columns, run by the constructor YAMLTable(rows=, columns=);
\* columns=None fails the field's type (a pydantic ValidationError is a ValueError)
validate_columns(rows, columns) ==
    IF ~columns.some THEN Raise("ValueError", NoTable)
    ELSE IF columns.d = <<>> THEN Raise("ValueError", NoTable)
    ELSE IF \E i \in 1..Len(rows) :
                Range(DictKeys(rows[i])) # Range(DictKeys(columns.d))
         THEN Raise("ValueError", NoTable)
    ELSE Ok([rows |-> rows, columns |-> columns.d])

\* YAMLTable.empty_mock_table
empty_mock_table(mock_table) == validate_columns(<<>>, mock_table.columns)

\* the rows loop of from_string: blank lines skipped, zip(columns, values)
ParseRows(columns, lines) ==
    LET data == SelectSeq(lines, LAMBDA l : l.kind # "blank")
    IN  [i \in 1..Len(data) |-> DictOf(Zip(columns, data[i].cells))]

\* the inline annotations of the header, empty ones removed; keyed by the cell text
HeaderAnnotations(cells) ==
    DictOf([i \in 1..Len(cells) |-> <<CellText(cells[i]), cells[i].ann>>])

NonEmptyAnnotations(cells) ==
    SelectSeq(HeaderAnnotations(cells), LAMBDA kv : kv[2] # "")

\* YAMLTable.from_string
from_string(tstr, schema) ==
    With(StripLines(tstr), LAMBDA lines :
    IF lines = <<>> THEN Raise("ValueError", NoTable)
    ELSE
    LET cells == lines[1].cells
        columns == [i \in 1..Len(cells) |-> CellText(cells[i])]
        annotations == NonEmptyAnnotations(cells)
    IN
    IF Len(lines) < 2 THEN Raise("IndexError", NoTable)
    ELSE IF lines[2].kind \notin {"sep", "blank"} THEN Raise("ValueError", NoTable)
    ELSE
    With(ParseRows(columns, SubSeq(lines, 3, Len(lines))), LAMBDA rows :
    LET typedefs == [i \in 1..Len(rows[1]) |-> native_to_sql_typedef(rows[1][i][2].t)]
    IN
    IF ~schema.some /\ rows # <<>> /\ \E i \in 1..Len(typedefs) : ~typedefs[i].ok
    THEN Raise("TypeError", NoTable)
    ELSE
    LET base ==
            IF schema.some THEN schema.d
            ELSE IF rows # <<>>
            THEN [i \in 1..Len(rows[1]) |-> <<rows[1][i][1], typedefs[i].val>>]
            ELSE DictOf([i \in 1..Len(columns) |-> <<columns[i], "string">>])
    IN  validate_columns(rows, Some(DictUpdate(base, annotations)))))

\* one alias of a select: f"cast({val} as {typ}) as {key}"
Alias(val, typ, key) == <<"cast(", val, " as ", typ, ") as ", key>>

\* the select of one row: the row's items zipped with the column types by position
RowSelect(row, columns) ==
    LET pairs == Zip(row, DictValues(columns))
    IN  <<"select ">> \o
        Join([i \in 1..Len(pairs) |->
                 Alias(native_to_sql(pairs[i][1][2]).val, pairs[i][2], pairs[i][1][1])],
             <<", ">>)

\* EmptySelect without its where clause
EmptySelectAllRows(columns) ==
    <<"select ">> \o
    Join([i \in 1..Len(columns) |->
             Alias(native_to_sql(PyNone).val, columns[i][2], columns[i][1])],
         <<", ">>)

EmptySelect(columns) ==
    <<"select ">> \o
    Join([i \in 1..Len(columns) |->
             Alias(native_to_sql(PyNone).val, columns[i][2], columns[i][1])],
         <<", ">>) \o
    <<"\nwhere false">>

\* as_unioned_selects that loses the last row
as_unioned_selects_short(t) ==
    IF t.rows # <<>> THEN
        Ok(Join([i \in 1..(Len(t.rows) - 1) |-> RowSelect(t.rows[i], t.columns)],
                <<"\nunion all\n">>))
    ELSE Ok(EmptySelect(t.columns))

\* YAMLTable.as_unioned_selects
as_unioned_selects(t) ==
    IF t.rows # <<>> THEN
        IF \E i \in 1..Len(t.rows) : \E j \in 1..Len(t.rows[i]) :
               ~native_to_sql(t.rows[i][j][2]).ok
        THEN Raise("TypeError", <<>>)
        ELSE Ok(Join([i \in 1..Len(t.rows) |-> RowSelect(t.rows[i], t.columns)],
                     <<"\nunion all\n">>))
    ELSE Ok(EmptySelect(t.columns))

--------------------------------------------------------------------------
(* annotations.py: get_comments, on a text of characters.  The character "#"  *)
(* stands for the enable sentinel `# sql-unit` and "!" for the text           *)
(* `.disabled`, so "#!" is the disable sentinel `# sql-unit.disabled`.        *)

Sentinel == <<"#">>
DisabledSentinel == <<"#", "!">>

\* str.find(pat, from): the first index >= from where pat occurs, 0 when none
Find(text, pat, from) ==
    LET hits == {i \in from..(Len(text) - Len(pat) + 1) :
                    SubSeq(text, i, i + Len(pat) - 1) = pat}
    IN  IF hits = {} THEN 0 ELSE CHOOSE i \in hits : \A j \in hits : i <= j

\* pat in text
Contains(text, pat) == Find(text, pat, 1) # 0

\* str.replace(pat, ""), pat one character long
Remove(text, pat) == SelectSeq(text, LAMBDA ch : <<ch>> # pat)

\* ScanComments without the test for the disable sentinel
RECURSIVE ScanCommentsKeepDisabled(_, _)
ScanCommentsKeepDisabled(text, doc) ==
    LET open == Find(text, <<"/", "*">>, 1) IN
    IF open = 0 THEN doc
    ELSE
    LET start == open + 2
        end == Find(text, <<"*", "/">>, start)
    IN
    IF end = 0 THEN doc
    ELSE
    LET comment == SubSeq(text, start, end - 1)
        rest == SubSeq(text, end + 2, Len(text))
    IN  ScanCommentsKeepDisabled(rest,
            IF Contains(comment, Sentinel)
            THEN doc \o Remove(comment, Sentinel) \o <<"\n">>
            ELSE doc)

\* the while loop of get_comments: the comment_doc it accumulates
RECURSIVE ScanComments(_, _)
ScanComments(text, doc) ==
    LET open == Find(text, <<"/", "*">>, 1) IN
    IF open = 0 THEN doc
    ELSE
    LET start == open + 2
        end == Find(text, <<"*", "/">>, start)
    IN
    IF end = 0 THEN doc
    ELSE
    LET comment == SubSeq(text, start, end - 1)
        rest == SubSeq(text, end + 2, Len(text))
    IN  ScanComments(rest,
            IF Contains(comment, Sentinel) /\ ~Contains(comment, DisabledSentinel)
            THEN doc \o Remove(comment, Sentinel) \o <<"\n">>
            ELSE doc)

\* str.splitlines(): no empty last line after a final newline
RECURSIVE SplitLines(_)
SplitLines(text) ==
    IF text = <<>> THEN <<>>
    ELSE LET nl == Find(text, <<"\n">>, 1) IN
         IF nl = 0 THEN <<text>>
         ELSE <<SubSeq(text, 1, nl - 1)>> \o SplitLines(SubSeq(text, nl + 1, Len(text)))

IsSpace(ch) == ch \in {" ", "\n"}
RECURSIVE LStrip(_)
LStrip(line) == IF line # <<>> /\ IsSpace(Head(line)) THEN LStrip(Tail(line)) ELSE line
RECURSIVE RStrip(_)
RStrip(line) ==
    IF line # <<>> /\ IsSpace(line[Len(line)])
    THEN RStrip(SubSeq(line, 1, Len(line) - 1)) ELSE line

Min(S) == CHOOSE x \in S : \A y \in S : x <= y

\* lines 20-31 of get_comments: the indentation of comment_doc normalized
NormalizeIndent(comment_doc) ==
    IF comment_doc = <<>> THEN <<>>
    ELSE
    LET lines == SplitLines(comment_doc)
        nonempty_lines == SelectSeq(lines, LAMBDA line : LStrip(line) # <<>>)
    IN
    IF nonempty_lines = <<>> THEN <<>>
    ELSE
    LET min_indent == Min({Len(nonempty_lines[i]) - Len(LStrip(nonempty_lines[i])) :
                              i \in 1..Len(nonempty_lines)})
        normalized == Join([i \in 1..Len(nonempty_lines) |->
                               SubSeq(nonempty_lines[i], min_indent + 1,
                                      Len(nonempty_lines[i]))],
                           <<"\n">>)
        stripped == SplitLines(normalized)
    IN  Join([i \in 1..Len(stripped) |-> RStrip(stripped[i])], <<"\n">>)

get_comments(template_str) == NormalizeIndent(ScanComments(template_str, <<>>))


--------------------------------------------------------------------------
(* model.py: keys of the annotation document *)

\* the identifiers and kinds the keys of the modelled documents are written with
Identifiers == {"m1", "m2", "m3", "m4", "t1", "t2", "t3", "t4"}
Kinds == {"mock", "mocks", "test", "tests"}

\* sql-unit.<kind> "<identifier>"
DeclKey(kind, id) == "sql-unit." \o kind \o " \"" \o id \o "\""
\* the same without the quotes: not the shape SQLUNIT_IDENTIFIER_PATTERN wants
BareKey(kind, id) == "sql-unit." \o kind \o " " \o id
\* given "<name>"
GivenKey(name) == "given \"" \o name \o "\""

\* SQLUNIT_IDENTIFIER_PATTERN.match(key): the groups type and identifier
IdentifierMatch(key) ==
    IF \E k \in Kinds, id \in Identifiers : key = DeclKey(k, id)
    THEN LET m == CHOOSE m \in Kinds \X Identifiers : key = DeclKey(m[1], m[2])
         IN  [matched |-> TRUE, type |-> m[1], identifier |-> m[2]]
    ELSE [matched |-> FALSE, type |-> "", identifier |-> ""]

\* SQLUNIT_GIVEN_PATTERN.match(key): the group name
GivenMatch(key) ==
    IF \E id \in Identifiers : key = GivenKey(id)
    THEN [matched |-> TRUE, name |-> CHOOSE id \in Identifiers : key = GivenKey(id)]
    ELSE [matched |-> FALSE, name |-> ""]

\* "sql-unit.<marker>" in key
HasMarker(key, marker) ==
    \E k \in Kinds, id \in Identifiers :
        /\ key \in {DeclKey(k, id), BareKey(k, id)}
        /\ k \in {marker, marker \o "s"}

--------------------------------------------------------------------------
(* annotations.py: get_comments_obj.  The file's annotation is what           *)
(* yaml.safe_load makes of the extracted comments:                            *)
(*   "none": no tagged comment, "error": a YAMLError,                         *)
(*   "mapping": a key-value document (items), "scalar": any other document    *)

\* the result is a dict, or a value that is not one
get_comments_obj(annotation) ==
    IF annotation.kind = "none" THEN [isdict |-> TRUE, items |-> <<>>]
    ELSE IF annotation.kind = "error" THEN [isdict |-> TRUE, items |-> <<>>]
    ELSE IF annotation.kind = "mapping" THEN [isdict |-> TRUE, items |-> annotation.items]
    ELSE [isdict |-> FALSE, items |-> <<>>]

--------------------------------------------------------------------------
(* model.py: SQLUnitMock, SQLUnitMockSchema *)

MockTypes == {"table", "mapping", "sequence", "int", "float", "str", "bool"}

NoMock == [name |-> "", typ |-> "", columns |-> NoneDict]

\* the constructor SQLUnitMock(name=, **value) with its validator validate_type;
\* a value that is no mapping cannot be spread, a type outside the enum or a
\* table without columns fails validation (a ValueError)
NewMock(name, value) ==
    IF value.kind # "mapping" THEN Raise("TypeError", NoMock)
    ELSE IF value.type \notin MockTypes THEN Raise("ValueError", NoMock)
    ELSE IF value.type = "table" /\ ~value.columns.some THEN Raise("ValueError", NoMock)
    ELSE Ok([name |-> name, typ |-> value.type, columns |-> value.columns])

\* SQLUnitMock.from_yaml_item
mock_from_yaml_item(key, value) ==
    LET match == IdentifierMatch(key) IN
    IF ~match.matched THEN Raise("ValueError", NoMock)
    ELSE IF match.type # "mock" THEN Raise("AssertionError", NoMock)
    ELSE NewMock(match.identifier, value)

\* the loop of from_template over the items from position i on: mocks so far
RECURSIVE CollectMocks(_, _, _)
CollectMocks(items, i, mocks) ==
    IF i > Len(items) THEN Ok(mocks)
    ELSE IF ~HasMarker(items[i][1], "mock") THEN CollectMocks(items, i + 1, mocks)
    ELSE With(mock_from_yaml_item(items[i][1], items[i][2]), LAMBDA parsed_mock :
         IF parsed_mock.ok
         THEN With(DictSet(mocks, parsed_mock.val.name, parsed_mock.val),
                   LAMBDA added : CollectMocks(items, i + 1, added))
         ELSE IF parsed_mock.err = "ValueError" THEN CollectMocks(items, i + 1, mocks)
         ELSE Raise(parsed_mock.err, <<>>))

\* SQLUnitMockSchema.from_template; comment_obj.items() needs a dict
from_template(annotation) ==
    LET comment_obj == get_comments_obj(annotation) IN
    IF ~comment_obj.isdict THEN Raise("AttributeError", <<>>)
    ELSE CollectMocks(comment_obj.items, 1, <<>>)

\* SQLUnitSource.mock_schema
mock_schema(source) == from_template(source.annotation)

--------------------------------------------------------------------------
(* model.py: SQLUnitSource, SQLUnitTestCase *)

\* A source file is [annotation, code]: code is the whole text of the file in
\* pieces (words, " ", "\n", punctuation, template references, and the
\* annotation comments as one piece), annotation what its comments parse to.

\* a str value of the annotation document that holds the lines of a pipe table
TableText(lines) == [t |-> "str", v |-> "table", lines |-> lines]
\* the lines of a str: a str that is no table is one line without cells
StrLines(value) ==
    IF "lines" \in DOMAIN value THEN value.lines ELSE <<HeaderLine(<<>>)>>

\* isinstance(value, YAMLTable)
IsYAMLTable(value) == "rows" \in DOMAIN value

\* SQLUnitSource.mock: mock_schema().root.get(name)
source_mock(source, name) ==
    With(mock_schema(source), LAMBDA schema :
        IF ~schema.ok THEN Raise(schema.err, NoMock)
        ELSE IF DictHas(schema.val, name) THEN Ok(DictGet(schema.val, name))
        ELSE Raise("NotFound", NoMock))

\* SQLUnitTestCase.parse_given; str.strip needs a str
parse_given(source, key, value) ==
    LET match == GivenMatch(key) IN
    IF ~match.matched THEN Raise("ValueError", value)
    ELSE
    With(source_mock(source, match.name), LAMBDA mock_type :
        IF mock_type.err = "NotFound" THEN Raise("ValueError", value)
        ELSE IF ~mock_type.ok THEN Raise(mock_type.err, value)
        ELSE IF mock_type.val.typ = "table" THEN
            IF value.t # "str" THEN Raise("AttributeError", value)
            ELSE from_string(StrLines(value), mock_type.val.columns)
        ELSE Ok(value))

\* given = {k: parse_given(source, k, v) for k, v in given_keys.items()}
RECURSIVE ParseGivens(_, _, _, _)
ParseGivens(source, given_keys, i, given) ==
    IF i > Len(given_keys) THEN Ok(given)
    ELSE With(parse_given(source, given_keys[i][1], given_keys[i][2]), LAMBDA parsed :
         IF ~parsed.ok THEN Raise(parsed.err, <<>>)
         ELSE With(DictSet(given, given_keys[i][1], parsed.val),
                   LAMBDA added : ParseGivens(source, given_keys, i + 1, added)))

\* Backfill that fills in the first missing mock only
BackfillFirst(source, names, i, given) ==
    IF \A j \in 1..Len(names) : DictHas(given, names[j]) THEN Ok(given)
    ELSE LET k == Min({j \in 1..Len(names) : ~DictHas(given, names[j])})
             mock == source_mock(source, names[k])
             empty == empty_mock_table(mock.val)
         IN  IF ~mock.ok THEN Raise(mock.err, <<>>)
             ELSE IF ~empty.ok THEN Raise(empty.err, <<>>)
             ELSE Ok(DictSet(given, names[k], empty.val))

\* the loop of from_yaml_item over the mock names: every mock that is no key of
\* given gets empty_mock_table(source.mock(k))
RECURSIVE Backfill(_, _, _, _)
Backfill(source, names, i, given) ==
    IF i > Len(names) THEN Ok(given)
    ELSE IF DictHas(given, names[i]) THEN Backfill(source, names, i + 1, given)
    ELSE With(source_mock(source, names[i]), LAMBDA mock :
         IF ~mock.ok THEN Raise(mock.err, <<>>)
         ELSE With(empty_mock_table(mock.val), LAMBDA empty :
              IF ~empty.ok THEN Raise(empty.err, <<>>)
              ELSE With(DictSet(given, names[i], empty.val),
                        LAMBDA added : Backfill(source, names, i + 1, added))))

NoCase == [name |-> "", expected |-> NoTable, given |-> <<>>]

\* expected = YAMLTable.from_string(value["expected"]); str.strip needs a str
ExpectedTable(exp) ==
    IF exp.t # "str" THEN Raise("AttributeError", NoTable)
    ELSE from_string(StrLines(exp), NoneDict)

\* SQLUnitTestCase.from_yaml_item; the in test needs a container
case_from_yaml_item(source, key, value) ==
    LET match == IdentifierMatch(key) IN
    IF ~match.matched THEN Raise("ValueError", NoCase)
    ELSE IF match.type # "test" THEN Raise("ValueError", NoCase)
    ELSE IF value.kind # "mapping" THEN Raise("TypeError", NoCase)
    ELSE IF ~DictHas(value.items, "expected") THEN Raise("AssertionError", NoCase)
    ELSE
    With(ExpectedTable(DictGet(value.items, "expected")), LAMBDA expected :
    IF ~expected.ok THEN Raise(expected.err, NoCase)
    ELSE
    With(SelectSeq(value.items, LAMBDA kv : GivenMatch(kv[1]).matched), LAMBDA given_keys :
    With(ParseGivens(source, given_keys, 1, <<>>), LAMBDA parsed :
    IF ~parsed.ok THEN Raise(parsed.err, NoCase)
    ELSE
    With(mock_schema(source), LAMBDA schema :
    IF ~schema.ok THEN Raise(schema.err, NoCase)
    ELSE
    With(Backfill(source, DictKeys(schema.val), 1, parsed.val), LAMBDA given :
    IF ~given.ok THEN Raise(given.err, NoCase)
    ELSE Ok([name |-> match.identifier, expected |-> expected.val,
             given |-> given.val]))))))

\* the loop of test_cases over the items from position i on: cases so far
RECURSIVE CollectCases(_, _, _, _)
CollectCases(source, items, i, cases) ==
    IF i > Len(items) THEN Ok(cases)
    ELSE IF ~HasMarker(items[i][1], "test") THEN CollectCases(source, items, i + 1, cases)
    ELSE With(case_from_yaml_item(source, items[i][1], items[i][2]), LAMBDA case :
         IF case.ok
         THEN With(Append(cases, case.val),
                   LAMBDA added : CollectCases(source, items, i + 1, added))
         ELSE IF case.err = "ValueError" THEN CollectCases(source, items, i + 1, cases)
         ELSE Raise(case.err, <<>>))

\* SQLUnitSource.test_cases
test_cases(source) ==
    LET comments_obj == get_comments_obj(source.annotation) IN
    IF ~comments_obj.isdict THEN Raise("AttributeError", <<>>)
    ELSE CollectCases(source, comments_obj.items, 1, <<>>)

--------------------------------------------------------------------------
(* model.py: SQLUnitTestCase.compile *)

IsBlank(piece) == piece \in {" ", "\n", ""}
IsWord(piece, word, upper) == piece \in {word, upper}

\* where the match of leading_with_pattern ends in the code, 0 when it does not
\* match:  ^\s*(with)\s+.+?\s+as\s+\(.+?\)  ignoring case, "." matching newlines.
\* w is the piece "with", a the first "as" that has something and whitespace
\* between it and the with, and whitespace and then "(" after it, c the first ")"
\* with something between it and that "(".
LeadingWithEnd(code) ==
    LET n == Len(code)
        ws == {i \in 1..n : code[i] \in {" ", "\n"}}
        starts == {w \in 1..n : /\ IsWord(code[w], "with", "WITH")
                                /\ \A i \in 1..(w - 1) : i \in ws}
        Paren(a) == {p \in (a + 2)..n : /\ code[p] = "("
                                        /\ \A i \in (a + 1)..(p - 1) : i \in ws}
        Close(p) == {c \in (p + 2)..n : code[c] = ")"}
        ends == {c \in 1..n : \E w \in starts :
                    /\ (w + 1) \in ws
                    /\ \E a \in (w + 4)..n :
                          /\ IsWord(code[a], "as", "AS")
                          /\ (a - 1) \in ws
                          /\ \E p \in Paren(a) : c \in Close(p)
                          /\ \A b \in (w + 4)..(a - 1) :
                                ~(/\ IsWord(code[b], "as", "AS")
                                  /\ (b - 1) \in ws
                                  /\ \E q \in Paren(b) : Close(q) # {})}
    IN  IF ends = {} THEN 0 ELSE Min(ends)

\* "{{ name }}"
Ref(name) == "{{ " \o name \o " }}"

\* the context compile renders with: the given entries, and on top of them every
\* table mock of the schema as "<name>_table"; a table renders as its repr
ContextHas(case, schema, name) ==
    \/ DictHas(case.given, name)
    \/ DictHas(schema, name) /\ DictGet(schema, name).typ = "table"
ContextText(case, schema, name) ==
    IF DictHas(schema, name) /\ DictGet(schema, name).typ = "table"
    THEN name \o "_table"
    ELSE IF IsYAMLTable(DictGet(case.given, name)) THEN "YAMLTable(...)"
    ELSE DictGet(case.given, name).v

\* template.render(**context): a reference becomes the text of its value, an
\* undefined one the empty text
RenderPiece(piece, case, schema) ==
    IF \E id \in Identifiers : piece = Ref(id)
    THEN LET id == CHOOSE id \in Identifiers : piece = Ref(id) IN
         IF ContextHas(case, schema, id) THEN ContextText(case, schema, id) ELSE ""
    ELSE piece
Render(text, case, schema) ==
    [i \in 1..Len(text) |-> RenderPiece(text[i], case, schema)]

\* str.strip() of a text in pieces
RECURSIVE LStripText(_)
LStripText(text) ==
    IF text # <<>> /\ IsBlank(Head(text)) THEN LStripText(Tail(text)) ELSE text
RECURSIVE RStripText(_)
RStripText(text) ==
    IF text # <<>> /\ IsBlank(text[Len(text)])
    THEN RStripText(SubSeq(text, 1, Len(text) - 1)) ELSE text
StripText(text) == RStripText(LStripText(text))

\* f"{name}_table as ({value.as_unioned_selects()})"
GivenWith(name, selects_text) ==
    <<name \o "_table", " as (">> \o selects_text \o <<")">>

\* the with_clause of compile, from the given entries that are tables
WithClause(tables, leading_with_match) ==
    IF tables = <<>> THEN <<>>
    ELSE <<"with ">> \o
         Join([i \in 1..Len(tables) |->
                  GivenWith(tables[i][1], as_unioned_selects(tables[i][2]).val)],
              <<", ">>) \o
         (IF leading_with_match THEN <<",", "\n">> ELSE <<>>)

\* SQLUnitTestCase.compile
compile(case, source) ==
    With(LeadingWithEnd(source.code), LAMBDA end :
    LET source_code == IF end > 0 THEN SubSeq(source.code, end + 1, Len(source.code))
                       ELSE source.code
        tables == SelectSeq(case.given, LAMBDA kv : IsYAMLTable(kv[2]))
    IN
    IF \E i \in 1..Len(tables) : ~as_unioned_selects(tables[i][2]).ok
    THEN Raise("TypeError", <<>>)
    ELSE
    With(WithClause(tables, end > 0) \o <<"\n">> \o source_code,
         LAMBDA injected_source_code :
    With(mock_schema(source), LAMBDA schema :
        IF ~schema.ok THEN Raise(schema.err, <<>>)
        ELSE Ok(StripText(Render(injected_source_code, case, schema.val))))))

--------------------------------------------------------------------------
(* model.py / types.py: default values of the mocks of a schema.  A str that  *)
(* is read as Python source carries its text as pieces.                       *)

PySource(pieces) == [t |-> "str", v |-> JoinStr(pieces, ""), pieces |-> pieces]
PyDict(items) == [t |-> "dict", v |-> "dict", items |-> items]

\* an optional default: None or a native value
NoDefault == [some |-> FALSE, v |-> PyNone]
Default(v) == [some |-> TRUE, v |-> v]

\* SQLUnitMockType.default_factory: the text the lambda of the type returns
default_factory(typ, name) ==
    IF typ = "table" THEN <<"\"", name \o "_table", "\"">>
    ELSE IF typ = "mapping" THEN <<"{}">>
    ELSE IF typ = "sequence" THEN <<"[]">>
    ELSE IF typ = "int" THEN <<"0">>
    ELSE IF typ = "float" THEN <<"0.0">>
    ELSE IF typ = "str" THEN <<"\"", name, "\"">>
    ELSE <<"false">>

Digits == {"0", "1", "2", "3", "4", "5", "6", "7", "8", "9"}

\* ast.literal_eval: a value that is no str is a malformed node; a str is parsed
\* as a Python literal, and a name other than True, False, None is malformed
literal_eval(node_or_string) ==
    IF node_or_string.t # "str" THEN Raise("ValueError", PyNone)
    ELSE LET p == node_or_string.pieces IN
         IF Len(p) = 3 /\ p[1] = "\"" /\ p[3] = "\"" THEN Ok(PyStr(p[2]))
         ELSE IF p = <<"{}">> THEN Ok(PyDict(<<>>))
         ELSE IF p = <<"[]">> THEN Ok(PyList(<<>>))
         ELSE IF Len(p) = 1 /\ p[1] \in Digits
         THEN Ok(PyInt(CHOOSE n \in 0..9 : ToString(n) = p[1]))
         ELSE IF p = <<"0.0">> THEN Ok(PyFloat("0.0"))
         ELSE IF p = <<"True">> THEN Ok(PyBool(TRUE))
         ELSE IF p = <<"False">> THEN Ok(PyBool(FALSE))
         ELSE IF p = <<"None">> THEN Ok(PyNone)
         ELSE Raise("ValueError", PyNone)

\* SQLUnitMock.default_value
default_value(mock) ==
    literal_eval(IF ~mock.default.some
                 THEN PySource(default_factory(mock.typ, mock.name))
                 ELSE mock.default.v)

\* SQLUnitMockSchema.default_values: the comprehension raises what the first
\* failing default_value raises
default_values(root) ==
    LET values == [i \in 1..Len(root) |-> default_value(root[i][2])]
        failed == {i \in 1..Len(root) : ~values[i].ok}
    IN  IF failed # {} THEN Raise(values[Min(failed)].err, <<>>)
        ELSE Ok([i \in 1..Len(root) |-> <<root[i][1], values[i].val>>])

--------------------------------------------------------------------------
(* Inputs of the table parser *)

MaxCols == 2
MaxRows == 2

SeqsUpTo(S, n) == UNION {[1..k -> S] : k \in 0..n}

ColNames == {"id", "name"}
HeaderCells == [name : ColNames, ann : {"", "bigint"}]
Headers == SeqsUpTo(HeaderCells, MaxCols)

\* the values of the cells of data row r, w cells wide
RowKinds == {"mixed", "nulls", "dates", "short"}
Words == <<"foo", "bar", "baz", "qux">>
CellValue(kind, r, c) ==
    IF kind = "nulls" THEN PyNone
    ELSE IF kind = "dates" THEN PyDate("2024-01-01")
    ELSE IF c % 2 = 1 THEN PyInt(r) ELSE PyStr(Words[((r - 1) % 4) + 1])
RowValues(kind, r, w) ==
    LET n == IF kind = "short" /\ w > 0 THEN w - 1 ELSE w
    IN  [c \in 1..n |-> CellValue(kind, r, c)]

Shapes == {"ok", "empty", "header_only", "bad_sep", "padded"}
TableString(shape, header, kinds) ==
    LET w == Len(header)
        data == [r \in 1..Len(kinds) |-> DataLine(RowValues(kinds[r], r, w))]
    IN  IF shape = "empty" THEN <<BlankLine>>
        ELSE IF shape = "header_only" THEN <<HeaderLine(header)>>
        ELSE IF shape = "bad_sep" THEN <<HeaderLine(header)>> \o data
        ELSE IF shape = "padded"
        THEN <<BlankLine, HeaderLine(header), SepLine, BlankLine>> \o data \o <<BlankLine>>
        ELSE <<HeaderLine(header), SepLine>> \o data

\* the kinds of the rows of a table: rows of one kind, or rows of one kind with a
\* short last row
RowKindLists ==
    {[r \in 1..n |-> k] : k \in RowKinds, n \in 0..MaxRows} \cup
    {[r \in 1..n |-> IF r = n THEN "short" ELSE k] : k \in RowKinds, n \in 2..MaxRows}

TableStrings ==
    {TableString(sh, h, ks) : sh \in Shapes, h \in Headers, ks \in RowKindLists}

SchemaArgs ==
    {NoneDict,
     Some(<<<<"id", "int">>, <<"name", "string">>>>),
     Some(<<<<"name", "string">>, <<"id", "int">>>>),
     Some(<<<<"id", "int">>>>)}

--------------------------------------------------------------------------
(* Inputs of the comment extractor: a template written as text segments     *)
(* alternating with closed comments, with an optional unclosed comment last *)

MaxComments == 2

\* text outside comments: it holds no "/*"
Texts ==
    {<<>>,
     <<"x", "\n", "/">>,
     <<"/", " ", "#", "*", "/", " ">>}

\* comment bodies: they hold no "*/"
Bodies ==
    {<<"\n", " ", " ", "#", "\n", " ", " ", "x", " ", "\n", " ", " ", " ", "y", "\n">>,
     <<" ", "#", " ", "z", "\n">>,
     <<"#">>,
     <<" ", "w", "\n">>,
     <<"\n", " ", "#", "!", "\n", " ", "v", "\n">>,
     <<"/", "#", "\n", " ", " ", " ", "u", "*">>,
     <<"#", "\n", "\n", " ", "#", "t", " ", " ">>}

\* what follows the last segment
Tails ==
    {<<>>,
     <<"/", "*", " ", "#", " ", "s", "\n">>,
     <<"/", "*", "/">>}

TextSeg(chars) == [kind |-> "text", chars |-> chars]
CommentSeg(body) == [kind |-> "comment", chars |-> body]
UnclosedSeg(chars) == [kind |-> "unclosed", chars |-> chars]

\* the characters a segment puts in the file
SegmentText(seg) ==
    IF seg.kind = "comment" THEN <<"/", "*">> \o seg.chars \o <<"*", "/">>
    ELSE seg.chars

\* the text after the i-th comment
TextAfter(i) ==
    IF i % 3 = 1 THEN <<"x", "\n", "/">>
    ELSE IF i % 3 = 2 THEN <<>>
    ELSE <<"/", " ", "#", "*", "/", " ">>

\* text, comment, text, ..., comment, text, tail
SegmentLists ==
    UNION {
        {<<TextSeg(first)>> \o
         Flatten([i \in 1..k |-> <<CommentSeg(bs[i]), TextSeg(TextAfter(i))>>]) \o
         <<UnclosedSeg(tail)>> :
            first \in Texts, bs \in [1..k -> Bodies], tail \in Tails}
        : k \in 0..MaxComments}

--------------------------------------------------------------------------
(* Inputs of the source model: files whose annotation declares mocks, then   *)
(* tests.  The i-th mock declaration names m<i>, the j-th test t<j>.         *)

MaxMocks == 2
MaxTests == 2

MockNames == <<"m1", "m2", "m3", "m4">>
TestNames == <<"t1", "t2", "t3", "t4">>

Mapping(type, columns) == [kind |-> "mapping", type |-> type, columns |-> columns]
NullValue == [kind |-> "null", type |-> "", columns |-> NoneDict]
IdName == Some(<<<<"id", "int">>, <<"name", "string">>>>)
IdOnly == Some(<<<<"id", "int">>>>)

\* the ways a mock declaration is written
MockVariants ==
    {"table", "table_one", "table_nocols", "int", "bogus", "null", "mocks", "bare", "note"}
\* well-formed mock declarations: none, tables, and an int beside a table
MockSets ==
    {<<>>, <<"table">>, <<"table", "int">>, <<"int", "table_one">>, <<"table", "table_one">>}
MockEntry(variant, i) ==
    LET id == MockNames[i] IN
    IF variant = "table" THEN <<DeclKey("mock", id), Mapping("table", IdName)>>
    ELSE IF variant = "table_one" THEN <<DeclKey("mock", id), Mapping("table", IdOnly)>>
    ELSE IF variant = "table_nocols" THEN <<DeclKey("mock", id), Mapping("table", NoneDict)>>
    ELSE IF variant = "int" THEN <<DeclKey("mock", id), Mapping("int", NoneDict)>>
    ELSE IF variant = "bogus" THEN <<DeclKey("mock", id), Mapping("bogus", NoneDict)>>
    ELSE IF variant = "null" THEN <<DeclKey("mock", id), NullValue>>
    ELSE IF variant = "mocks" THEN <<DeclKey("mocks", id), Mapping("table", IdName)>>
    ELSE IF variant = "bare" THEN <<BareKey("mock", id), Mapping("table", IdName)>>
    ELSE <<"note " \o id, Mapping("table", IdName)>>

Cell(name) == [name |-> name, ann |-> ""]
IdNameHeader == HeaderLine(<<Cell("id"), Cell("name")>>)
EmptyTableText == TableText(<<IdNameHeader, SepLine>>)
RowsTableText(n) ==
    TableText(<<IdNameHeader, SepLine>> \o
              [r \in 1..n |-> DataLine(RowValues("mixed", r, 2))])

TestValue(items) == [kind |-> "mapping", items |-> items]
NullTest == [kind |-> "null", items |-> <<>>]
Expecting(text) == <<"expected", text>>

\* the ways a test declaration is written
TestVariants ==
    {"plain", "given", "no_expected", "bad_sep", "header_only", "unknown_mock",
     "bad_given", "scalar_given", "null", "tests", "bare"}
GoodTestVariants == {"plain", "given"}
TestEntry(variant, j) ==
    LET id == TestNames[j]
        plain == TestValue(<<Expecting(EmptyTableText)>>)
    IN
    IF variant = "plain" THEN <<DeclKey("test", id), plain>>
    ELSE IF variant = "given" THEN
        <<DeclKey("test", id),
          TestValue(<<<<GivenKey("m1"), RowsTableText(2)>>, Expecting(RowsTableText(1))>>)>>
    ELSE IF variant = "no_expected" THEN <<DeclKey("test", id), TestValue(<<>>)>>
    ELSE IF variant = "bad_sep" THEN
        <<DeclKey("test", id),
          TestValue(<<Expecting(TableText(<<IdNameHeader, DataLine(RowValues("mixed", 1, 2))>>))>>)>>
    ELSE IF variant = "header_only" THEN
        <<DeclKey("test", id), TestValue(<<Expecting(TableText(<<IdNameHeader>>))>>)>>
    ELSE IF variant = "unknown_mock" THEN
        <<DeclKey("test", id),
          TestValue(<<Expecting(EmptyTableText), <<GivenKey("m4"), RowsTableText(1)>>>>)>>
    ELSE IF variant = "bad_given" THEN
        <<DeclKey("test", id),
          TestValue(<<Expecting(EmptyTableText), <<GivenKey("m1"), TableText(<<BlankLine>>)>>>>)>>
    ELSE IF variant = "scalar_given" THEN
        <<DeclKey("test", id),
          TestValue(<<Expecting(EmptyTableText), <<GivenKey("m2"), PyInt(5)>>>>)>>
    ELSE IF variant = "null" THEN <<DeclKey("test", id), NullTest>>
    ELSE IF variant = "tests" THEN <<DeclKey("tests", id), plain>>
    ELSE <<BareKey("test", id), plain>>

\* the annotation comments of the file, as one piece of its text
Comments == "/* # sql-unit ... */"

\* texts of source files: the comments first (as the tests write them), a
\* plain query, and queries that begin with a WITH clause
Codes ==
    {<<"\n", Comments, "\n", "select", " ", "*", " ", "from", " ", Ref("m1"), "\n">>,
     <<"select", " ", "*", " ", "from", " ", Ref("m1"), " ", "join", " ", Ref("m2"),
       "\n", Comments, "\n">>,
     <<"with", " ", "a", " ", "as", " ", "(", "select", " ", "1", ")", "\n",
       "select", " ", "*", " ", "from", " ", "a", ",", " ", Ref("m1"), "\n", Comments>>,
     <<"with", " ", "a", " ", "as", " ", "(", "select", " ", "1", ")", ",", " ",
       "b", " ", "as", " ", "(", "select", " ", "2", ")", "\n",
       "select", " ", "*", " ", "from", " ", "b", "\n", Comments>>,
     <<"\n", "WITH", " ", "a", " ", "AS", " ", "(", "select", " ", "count", "(", "*", ")",
       " ", "from", " ", Ref("m1"), ")", "\n",
       "select", " ", "*", " ", "from", " ", "a", "\n", Comments>>}
PlainCode == <<"\n", Comments, "\n", "select", " ", "1", "\n">>

SeqsFromTo(S, lo, hi) == UNION {[1..k -> S] : k \in lo..hi}

Document(mockVariants, testVariants) ==
    [kind |-> "mapping",
     items |-> [i \in 1..Len(mockVariants) |-> MockEntry(mockVariants[i], i)] \o
               [j \in 1..Len(testVariants) |-> TestEntry(testVariants[j], j)]]

\* files whose mock declarations are written in every way, and files whose
\* comments are no key-value document
NoisyMockFiles ==
    {[annotation |-> Document(ms, <<>>), code |-> PlainCode] :
        ms \in SeqsFromTo(MockVariants, 0, MaxMocks)}
    \cup {[annotation |-> [kind |-> k, items |-> <<>>], code |-> PlainCode] :
            k \in {"none", "error", "scalar"}}

\* test declarations: one written in any way, at any place among plain ones
TestLists ==
    {[j \in 1..n |-> IF j = k THEN v ELSE "plain"] :
        v \in TestVariants, n \in 1..MaxTests, k \in 1..MaxTests} \cup
    {[j \in 1..n |-> IF j <= 2 THEN v ELSE "plain"] :
        v \in TestVariants, n \in 2..MaxTests}

\* files with well-formed mocks whose test declarations are written in every way
NoisyTestFiles ==
    {[annotation |-> Document(ms, ts), code |-> PlainCode] :
        ms \in MockSets, ts \in TestLists}

\* files with table mocks (or none) and well-formed tests, with every text
QueryFiles ==
    {[annotation |-> Document(ms, ts), code |-> c] :
        ms \in SeqsFromTo({"table", "table_one"}, 0, MaxMocks),
        ts \in SeqsFromTo(GoodTestVariants, 1, MaxTests),
        c \in Codes}

Files == NoisyMockFiles \cup NoisyTestFiles \cup QueryFiles

--------------------------------------------------------------------------
(* Inputs of default_values: schemas whose i-th mock is named m<i>, of every *)
(* type, without a default or with a default the YAML document gives         *)

ExplicitDefaults == {PyInt(5), PySource(<<"5">>), PySource(<<"hello">>)}
DefaultArgs == {NoDefault} \cup {Default(v) : v \in ExplicitDefaults}

MockOf(i, typ, default) ==
    [name |-> MockNames[i], typ |-> typ,
     columns |-> IF typ = "table" THEN IdOnly ELSE NoneDict,
     default |-> default]

SchemaRoots ==
    UNION {{[i \in 1..k |-> <<MockNames[i], MockOf(i, ts[i], ds[i])>>] :
               ts \in [1..k -> MockTypes], ds \in [1..k -> DefaultArgs]}
           : k \in 0..MaxMocks}

--------------------------------------------------------------------------
(* Inputs of native_to_sql: scalars of every native type the YAML loader     *)
(* gives, lists of them, and lists that hold a list                          *)

MaxItems == 2

Scalars ==
    {PyInt(0), PyInt(7), PyFloat("1.5"), PyStr("foo"), PyStr(""), PyBool(TRUE),
     PyBool(FALSE), PyNone, PyDate("2024-01-01"), PyDict(<<>>)}
ScalarLists == {PyList(xs) : xs \in SeqsUpTo(Scalars, MaxItems)}
NestedLists ==
    {PyList(<<x, y>>) : x \in {PyList(<<>>), PyList(<<PyInt(7), PyBool(TRUE)>>)},
                        y \in Scalars}
NativeValues == Scalars \cup ScalarLists \cup NestedLists

NoSource ==
    /\ file = [annotation |-> [kind |-> "none", items |-> <<>>], code |-> <<>>]
    /\ schema_res = Raise("unset", <<>>)
    /\ cases_res = Raise("unset", <<>>)
    /\ item = <<>>
    /\ case_res = Raise("unset", NoCase)
    /\ compiled = Raise("unset", <<>>)

NoComments ==
    /\ segments = <<>>
    /\ template = <<>>
    /\ comments = <<>>

NoTableInput ==
    /\ table_str = <<>>
    /\ schema_arg = NoneDict
    /\ table = Raise("unset", NoTable)
    /\ selects = Raise("unset", <<>>)

NoDefaults ==
    /\ schema_root = <<>>
    /\ defaults = Raise("unset", <<>>)

NoEncoding ==
    /\ obj_arg = PyNone
    /\ sql = Raise("unset", "")

--------------------------------------------------------------------------
(* The table parser as a state machine: from_string, then as_unioned_selects *)

InitTable ==
    /\ pc = "start"
    /\ table_str \in TableStrings
    /\ schema_arg \in SchemaArgs
    /\ table = Raise("unset", NoTable)
    /\ selects = Raise("unset", <<>>)
    /\ NoComments
    /\ NoSource
    /\ NoDefaults
    /\ NoEncoding

FromString ==
    /\ pc = "start"
    /\ table_str # <<>>
    /\ table' = from_string(table_str, schema_arg)
    /\ pc' = "parsed"
    /\ UNCHANGED <<table_str, schema_arg, selects, commentVars, sourceVars, defaultVars, encodeVars>>

AsUnionedSelects ==
    /\ pc = "parsed"
    /\ table.ok
    /\ selects' = as_unioned_selects(table.val)
    /\ pc' = "selected"
    /\ UNCHANGED <<table_str, schema_arg, table, commentVars, sourceVars, defaultVars, encodeVars>>

NextTable == FromString \/ AsUnionedSelects

SpecTable == InitTable /\ [][NextTable]_vars

--------------------------------------------------------------------------
(* The comment extractor as a state machine *)

InitComments ==
    /\ pc = "start"
    /\ segments \in SegmentLists
    /\ template = Flatten([i \in 1..Len(segments) |-> SegmentText(segments[i])])
    /\ comments = <<>>
    /\ NoTableInput
    /\ NoSource
    /\ NoDefaults
    /\ NoEncoding

GetComments ==
    /\ pc = "start"
    /\ segments # <<>>
    /\ comments' = get_comments(template)
    /\ pc' = "extracted"
    /\ UNCHANGED <<segments, template, tableVars, sourceVars, defaultVars, encodeVars>>

NextComments == GetComments

SpecComments == InitComments /\ [][NextComments]_vars

--------------------------------------------------------------------------
(* A source file as a state machine: mock_schema, test_cases, then           *)
(* from_yaml_item on one of its test declarations and compile on the case    *)

InitSource ==
    /\ pc = "start"
    /\ file \in Files
    /\ schema_res = Raise("unset", <<>>)
    /\ cases_res = Raise("unset", <<>>)
    /\ item = <<>>
    /\ case_res = Raise("unset", NoCase)
    /\ compiled = Raise("unset", <<>>)
    /\ NoTableInput
    /\ NoComments
    /\ NoDefaults
    /\ NoEncoding

MockSchema ==
    /\ pc = "start"
    /\ file.code # <<>>
    /\ schema_res' = mock_schema(file)
    /\ pc' = "schema"
    /\ UNCHANGED <<file, cases_res, item, case_res, compiled, tableVars, commentVars, defaultVars, encodeVars>>

TestCases ==
    /\ pc = "schema"
    /\ cases_res' = test_cases(file)
    /\ pc' = "cases"
    /\ UNCHANGED <<file, schema_res, item, case_res, compiled, tableVars, commentVars, defaultVars, encodeVars>>

FromYamlItem ==
    /\ pc = "cases"
    /\ \E i \in 1..Len(file.annotation.items) :
           /\ HasMarker(file.annotation.items[i][1], "test")
           /\ item' = file.annotation.items[i]
           /\ case_res' = case_from_yaml_item(file, file.annotation.items[i][1],
                                          file.annotation.items[i][2])
    /\ pc' = "case"
    /\ UNCHANGED <<file, schema_res, cases_res, compiled, tableVars, commentVars, defaultVars, encodeVars>>

Compile ==
    /\ pc = "case"
    /\ case_res.ok
    /\ compiled' = compile(case_res.val, file)
    /\ pc' = "compiled"
    /\ UNCHANGED <<file, schema_res, cases_res, item, case_res, tableVars, commentVars, defaultVars, encodeVars>>

NextSource == MockSchema \/ TestCases \/ FromYamlItem \/ Compile

SpecSource == InitSource /\ [][NextSource]_vars

--------------------------------------------------------------------------
(* default_values of a mock schema *)

InitDefaults ==
    /\ pc = "start"
    /\ schema_root \in SchemaRoots
    /\ defaults = Raise("unset", <<>>)
    /\ NoTableInput
    /\ NoComments
    /\ NoSource
    /\ NoEncoding

DefaultValues ==
    /\ pc = "start"
    /\ defaults' = default_values(schema_root)
    /\ pc' = "defaults"
    /\ UNCHANGED <<schema_root, tableVars, commentVars, sourceVars, encodeVars>>

NextDefaults == DefaultValues

SpecDefaults == InitDefaults /\ [][NextDefaults]_vars

--------------------------------------------------------------------------
(* native_to_sql on a native value *)

InitEncode ==
    /\ pc = "start"
    /\ obj_arg \in NativeValues
    /\ sql = Raise("unset", "")
    /\ NoTableInput
    /\ NoComments
    /\ NoSource
    /\ NoDefaults

NativeToSql ==
    /\ pc = "start"
    /\ sql' = native_to_sql(obj_arg)
    /\ pc' = "encoded"
    /\ UNCHANGED <<obj_arg, tableVars, commentVars, sourceVars, defaultVars>>

NextEncode == NativeToSql

SpecEncode == InitEncode /\ [][NextEncode]_vars

--------------------------------------------------------------------------
(* Claims about the table parser (SpecTable) *)

\* as_unioned_selects has returned text for the table from_string built
Selected == pc = "selected" /\ selects.ok

\* every "\nunion all\n" stands between two selects
UnionsJoinSelects(text) ==
    \A i \in 1..Len(text) :
        text[i] = "\nunion all\n" => i > 1 /\ i < Len(text) /\ text[i + 1] = "select "

\* C9: for a table with zero rows the text of as_unioned_selects holds exactly one
\* select and ends with "where false"; for a table with N > 0 rows it holds exactly
\* N selects joined by "union all" (N - 1 of them, each followed by a select) and
\* no "where false".
C9_SelectsPerRow ==
    Selected =>
        LET text == selects.val
            n == Len(table.val.rows)
        IN  /\ text # <<>>
            /\ text[1] = "select "
            /\ UnionsJoinSelects(text)
            /\ IF n = 0
               THEN /\ Count(text, "select ") = 1
                    /\ text[Len(text)] = "\nwhere false"
                    /\ Count(text, "\nunion all\n") = 0
               ELSE /\ Count(text, "select ") = n
                    /\ Count(text, "\nunion all\n") = n - 1
                    /\ Count(text, "\nwhere false") = 0

C9_Witness ==
    /\ Selected
    /\ Len(table.val.rows) = MaxRows
    /\ Count(selects.val, "\nunion all\n") = MaxRows - 1

\* The input of from_string is a well-formed pipe table whose header carries an
\* inline annotation: distinct column names, a separator line, data rows as wide
\* as the header with values the encoders know, and a schema (if any) for exactly
\* the header's names.
AnnotatedHeaderInput ==
    LET lines == StripLines(table_str) IN
    /\ Len(lines) >= 2
    /\ lines[1].kind = "header"
    /\ lines[2].kind = "sep"
    /\ LET cells == lines[1].cells IN
       /\ \E i \in 1..Len(cells) : cells[i].ann # ""
       /\ \A i, j \in 1..Len(cells) : cells[i].name = cells[j].name => i = j
       /\ \A k \in 3..Len(lines) :
              /\ lines[k].kind = "data"
              /\ Len(lines[k].cells) = Len(cells)
              /\ \A c \in 1..Len(cells) : lines[k].cells[c].t \in {"int", "str", "NoneType"}
       /\ schema_arg.some =>
              Range(DictKeys(schema_arg.d)) = {cells[i].name : i \in 1..Len(cells)}

\* C10: from_string on a table whose header cell reads name::type succeeds, the
\* table has the column name with SQL type type (whatever the schema argument
\* says) and has no column called name::type.
C10_InlineAnnotationOverrides ==
    (pc = "parsed" /\ AnnotatedHeaderInput) =>
        /\ table.ok
        /\ LET cells == StripLines(table_str)[1].cells IN
           \A i \in 1..Len(cells) :
               cells[i].ann # "" =>
                   /\ DictHas(table.val.columns, cells[i].name)
                   /\ DictGet(table.val.columns, cells[i].name) = cells[i].ann
                   /\ ~DictHas(table.val.columns, CellText(cells[i]))

--------------------------------------------------------------------------
(* Claims about the comment extractor (SpecComments) *)

\* a closed comment that holds the enable sentinel and not the disable sentinel
IsTagged(seg) ==
    /\ seg.kind = "comment"
    /\ \E i \in 1..Len(seg.chars) : seg.chars[i] = "#"
    /\ ~\E i \in 1..(Len(seg.chars) - 1) : seg.chars[i] = "#" /\ seg.chars[i + 1] = "!"

\* the bodies of the tagged comments, in source order, the sentinel taken out,
\* each ended by a newline
TaggedBodies ==
    Flatten([i \in 1..Len(segments) |->
                IF IsTagged(segments[i])
                THEN SelectSeq(segments[i].chars, LAMBDA ch : ch # "#") \o <<"\n">>
                ELSE <<>>])

\* C8: get_comments returns the bodies of exactly the tagged, not disabled, closed
\* comments, in source order, sentinel stripped and indentation normalized (no
\* sentinel, no blank line, no trailing whitespace, the least indented line flush
\* left); text outside comments, untagged and disabled comments and an unclosed
\* last comment add nothing, and with no tagged comment the result is empty.
C8_TaggedCommentsOnly ==
    pc = "extracted" =>
        LET lines == SplitLines(comments) IN
        /\ comments = NormalizeIndent(TaggedBodies)
        /\ (~\E i \in 1..Len(segments) : IsTagged(segments[i])) => comments = <<>>
        /\ "#" \notin Range(comments)
        /\ \A i \in 1..Len(lines) :
               /\ lines[i] # <<>>
               /\ lines[i][Len(lines[i])] # " "
        /\ comments # <<>> => \E i \in 1..Len(lines) : lines[i][1] # " "

C8_Witness ==
    /\ pc = "extracted"
    /\ comments # <<>>
    /\ \E i, k \in 1..Len(segments) :
           /\ IsTagged(segments[i])
           /\ Len(SplitLines(SelectSeq(segments[i].chars, LAMBDA ch : ch # "#"))) >= 2
           /\ segments[k].kind = "comment" /\ "!" \in Range(segments[k].chars)
    /\ "#" \in Range(segments[Len(segments)].chars)

--------------------------------------------------------------------------
(* Claims about a source file (SpecSource) *)

IsSubSeq(sub, text) ==
    \E i \in 1..(Len(text) - Len(sub) + 1) : SubSeq(text, i, i + Len(sub) - 1) = sub
IsSuffix(sub, text) ==
    /\ Len(sub) <= Len(text)
    /\ SubSeq(text, Len(text) - Len(sub) + 1, Len(text)) = sub

SchemaLoaded == pc \in {"schema", "cases", "case", "compiled"}
CasesLoaded == pc \in {"cases", "case", "compiled"}
CaseBuilt == pc \in {"case", "compiled"}

\* a well-formed mock declaration: the key sql-unit.mock "<id>", a mapping with a
\* type of the enumeration, and columns when the type is table
IsMockDeclaration(entry) ==
    /\ \E id \in Identifiers : entry[1] = DeclKey("mock", id)
    /\ entry[2].kind = "mapping"
    /\ entry[2].type \in MockTypes
    /\ entry[2].type = "table" => entry[2].columns.some
DeclaredMock(entry) ==
    [name |-> CHOOSE id \in Identifiers : entry[1] = DeclKey("mock", id),
     typ |-> entry[2].type, columns |-> entry[2].columns]
\* the mocks of the well-formed mock declarations of a file
DeclaredMocks(f) ==
    IF f.annotation.kind # "mapping" THEN {}
    ELSE {DeclaredMock(f.annotation.items[i]) :
             i \in {j \in 1..Len(f.annotation.items) :
                       IsMockDeclaration(f.annotation.items[j])}}

\* C7: mock_schema (from_template) never raises, and its result holds exactly the
\* mocks of the well-formed mock declarations: none when the comments are no
\* key-value document, and none for an entry with a bad key shape, a kind other
\* than mock, or an invalid value.
C7_FromTemplateNeverRaises ==
    SchemaLoaded =>
        /\ schema_res.ok
        /\ Range(DictValues(schema_res.val)) = DeclaredMocks(file)

\* a str that is a well-formed pipe table: a header with cells, a separator, and
\* data rows as wide as the header
IsTableText(value) ==
    /\ value.t = "str"
    /\ "lines" \in DOMAIN value
    /\ Len(value.lines) >= 2
    /\ value.lines[1].kind = "header"
    /\ value.lines[1].cells # <<>>
    /\ value.lines[2].kind = "sep"
    /\ \A k \in 3..Len(value.lines) :
           /\ value.lines[k].kind = "data"
           /\ Len(value.lines[k].cells) = Len(value.lines[1].cells)
DataRows(value) == Len(value.lines) - 2

\* a well-formed table whose header names, without annotations, the columns of
\* the mock m
FitsMock(value, m) ==
    /\ IsTableText(value)
    /\ \A i \in 1..Len(value.lines[1].cells) : value.lines[1].cells[i].ann = ""
    /\ {value.lines[1].cells[i].name : i \in 1..Len(value.lines[1].cells)}
           = Range(DictKeys(m.columns.d))

\* the mock names a test declaration's value has given entries for
GivenNames(value) ==
    {id \in Identifiers : \E i \in 1..Len(value.items) : value.items[i][1] = GivenKey(id)}
GivenValue(value, id) == DictGet(value.items, GivenKey(id))

\* a well-formed test declaration of file f: the key sql-unit.test "<id>", a
\* mapping with a well-formed expected table, whose given entries name declared
\* mocks and give each table mock a well-formed table of its columns
IsTestDeclaration(f, entry) ==
    /\ \E id \in Identifiers : entry[1] = DeclKey("test", id)
    /\ entry[2].kind = "mapping"
    /\ DictHas(entry[2].items, "expected")
    /\ IsTableText(DictGet(entry[2].items, "expected"))
    /\ \A id \in GivenNames(entry[2]) :
           \E m \in DeclaredMocks(f) :
               /\ m.name = id
               /\ m.typ = "table" => FitsMock(GivenValue(entry[2], id), m)
TestName(entry) == CHOOSE id \in Identifiers : entry[1] = DeclKey("test", id)

\* C6: test_cases does not raise and returns, in document order, one test case
\* for every well-formed test declaration; the other declarations are skipped.
C6_TestCasesSkipsMalformed ==
    CasesLoaded =>
        /\ cases_res.ok
        /\ LET decls == SelectSeq(file.annotation.items,
                                  LAMBDA e : IsTestDeclaration(file, e))
           IN  [i \in 1..Len(cases_res.val) |-> cases_res.val[i].name]
                   = [i \in 1..Len(decls) |-> TestName(decls[i])]

\* C5: from_yaml_item on a well-formed test declaration succeeds; a mock without
\* a given entry is left out of given when it is scalar-typed and is an empty
\* table when it is table-typed.
C5_ScalarMocksStayAbsent ==
    (CaseBuilt /\ IsTestDeclaration(file, item)) =>
        /\ case_res.ok
        /\ \A m \in DeclaredMocks(file) :
               m.name \notin GivenNames(item[2]) =>
                   IF m.typ = "table"
                   THEN /\ DictHas(case_res.val.given, m.name)
                        /\ DictGet(case_res.val.given, m.name)
                               = [rows |-> <<>>, columns |-> m.columns.d]
                   ELSE ~DictHas(case_res.val.given, m.name)

\* C4: a test case from_yaml_item returned has, in given, an entry keyed by the
\* mock's name for every mock of the source's mock schema; so has every test
\* case test_cases returned.
C4_GivenIsComplete ==
    /\ (CaseBuilt /\ case_res.ok) =>
           \A name \in Range(DictKeys(schema_res.val)) :
               DictHas(case_res.val.given, name)
    /\ (CasesLoaded /\ cases_res.ok) =>
           \A i \in 1..Len(cases_res.val) :
               \A name \in Range(DictKeys(schema_res.val)) :
                   DictHas(cases_res.val[i].given, name)

C4_Witness ==
    /\ pc = "case"
    /\ case_res.ok
    /\ Len(schema_res.val) >= 2
    /\ GivenNames(item[2]) # {}
    /\ Len(case_res.val.given) > Len(schema_res.val)

\* the first word of the text is WITH
BeginsWithWith(code) ==
    /\ LStripText(code) # <<>>
    /\ LStripText(code)[1] \in {"with", "WITH"}

\* the text with every reference to a table mock of the file rendered as
\* <name>_table (and a reference to nothing as the empty text)
RenderedSource(f, code) ==
    [i \in 1..Len(code) |->
        IF \E m \in DeclaredMocks(f) : m.typ = "table" /\ code[i] = Ref(m.name)
        THEN (CHOOSE m \in DeclaredMocks(f) : code[i] = Ref(m.name)).name \o "_table"
        ELSE IF \E id \in Identifiers : code[i] = Ref(id) THEN ""
        ELSE code[i]]

\* <name>_table as (select cast(null as t1) as c1, ..., cast(null as tn) as cn\nwhere false)
NullCTE(name, columns) ==
    <<name \o "_table", " as (", "select ">> \o
    Join([i \in 1..Len(columns) |->
             <<"cast(", "null", " as ", columns[i][2], ") as ", columns[i][1]>>],
         <<", ">>) \o
    <<"\nwhere false", ")">>

Compiled == pc = "compiled" /\ compiled.ok

\* the table mocks of the schema that the compiled test declaration gives nothing for
MocksNotGiven ==
    SelectSeq(DictValues(schema_res.val),
              LAMBDA m : m.typ = "table" /\ m.name \notin GivenNames(item[2]))

\* C2: when the source has no leading WITH, the compiled text of a test case
\* begins with a with clause that holds, for every table mock m without a given
\* entry, m_table as (select cast(null as t1) as c1, ...\nwhere false), and the
\* source follows with every reference to a table mock rendered as <name>_table,
\* stripped; for a test case without given entries the text is exactly
\* "with " + those CTEs in schema order, joined by ", ", + "\n" + that source.
C2_EmptyMockCTE ==
    (Compiled /\ ~BeginsWithWith(file.code) /\ MocksNotGiven # <<>>) =>
        /\ compiled.val[1] = "with "
        /\ \A i \in 1..Len(MocksNotGiven) :
               IsSubSeq(NullCTE(MocksNotGiven[i].name, MocksNotGiven[i].columns.d),
                        compiled.val)
        /\ IsSuffix(StripText(RenderedSource(file, file.code)), compiled.val)
        /\ GivenNames(item[2]) = {} =>
               compiled.val =
                   StripText(<<"with ">> \o
                             Join([i \in 1..Len(MocksNotGiven) |->
                                      NullCTE(MocksNotGiven[i].name,
                                              MocksNotGiven[i].columns.d)],
                                  <<", ">>) \o
                             <<"\n">> \o RenderedSource(file, file.code))

C2_Witness ==
    /\ Compiled
    /\ ~BeginsWithWith(file.code)
    /\ GivenNames(item[2]) = {}
    /\ Len(MocksNotGiven) = 1
    /\ Ref(MocksNotGiven[1].name) \in Range(file.code)
    /\ MocksNotGiven[1].name \o "_table" \in Range(compiled.val)

\* C1: when the test declaration gives a table mock m a table of N >= 1 rows,
\* the compiled text holds the CTE m_table built from those N rows (N selects
\* joined by union all), not the empty table, and no reference to m is left:
\* each is rendered as m_table.
C1_GivenRowsAreCompiled ==
    Compiled =>
        \A m \in Range(DictValues(schema_res.val)) :
            (/\ m.typ = "table"
             /\ m.name \in GivenNames(item[2])
             /\ IsTableText(GivenValue(item[2], m.name))
             /\ DataRows(GivenValue(item[2], m.name)) >= 1) =>
                LET rows == from_string(GivenValue(item[2], m.name).lines, m.columns).val
                    cte == GivenWith(m.name, as_unioned_selects(rows).val)
                IN  /\ Count(cte, "select ") = DataRows(GivenValue(item[2], m.name))
                    /\ IsSubSeq(cte, compiled.val)
                    /\ ~IsSubSeq(NullCTE(m.name, m.columns.d), compiled.val)
                    /\ Ref(m.name) \notin Range(compiled.val)

\* C3: when the source begins with a WITH clause, the compiled text begins with
\* the one with keyword of the text, and what followed the source's WITH keyword
\* (every CTE of the original clause, then the query) is all still there, with
\* or without mock CTEs before it.
C3_LeadingWithIsKept ==
    (Compiled /\ BeginsWithWith(file.code)) =>
        LET body == LStripText(Tail(LStripText(file.code))) IN
        /\ compiled.val[1] \in {"with ", "with", "WITH"}
        /\ Cardinality({i \in 1..Len(compiled.val) :
                           compiled.val[i] \in {"with ", "with", "WITH"}}) = 1
        /\ IsSuffix(StripText(RenderedSource(file, body)), compiled.val)
        /\ MocksNotGiven # <<>> =>
               IsSubSeq(<<")", ",">>, compiled.val)

--------------------------------------------------------------------------
(* Claims about default values (SpecDefaults) *)

\* the native default of a type, for the mock called name
TypeDefault(typ, name) ==
    IF typ = "table" THEN PyStr(name \o "_table")
    ELSE IF typ = "mapping" THEN PyDict(<<>>)
    ELSE IF typ = "sequence" THEN PyList(<<>>)
    ELSE IF typ = "int" THEN PyInt(0)
    ELSE IF typ = "float" THEN PyFloat("0.0")
    ELSE IF typ = "str" THEN PyStr(name)
    ELSE PyBool(FALSE)

\* C11: default_values does not raise and maps the name of every mock of the
\* schema to the mock's explicit default when it has one, and otherwise to the
\* native default of its type (table: "<name>_table", mapping: {}, sequence: [],
\* int: 0, float: 0.0, str: "<name>", bool: false).
C11_DefaultsAreTyped ==
    pc = "defaults" =>
        /\ defaults.ok
        /\ DictKeys(defaults.val) = DictKeys(schema_root)
        /\ \A i \in 1..Len(schema_root) :
               LET mock == schema_root[i][2]
                   got == DictGet(defaults.val, mock.name)
               IN  IF mock.default.some
                   THEN got.t = mock.default.v.t /\ got.v = mock.default.v.v
                   ELSE got = TypeDefault(mock.typ, mock.name)

--------------------------------------------------------------------------
(* Claims about the casts of a select (SpecTable) *)

\* select cast(<value of c1> as <type of c1>) as c1, ..., for the columns in the
\* table's declared order
DeclaredRowSelect(row, columns) ==
    <<"select ">> \o
    Join([i \in 1..Len(columns) |->
             <<"cast(", native_to_sql(DictGet(row, columns[i][1])).val,
               " as ", columns[i][2], ") as ", columns[i][1]>>],
         <<", ">>)

\* C12: for a table with rows, the text of as_unioned_selects is, row by row, the
\* select that casts the row's value of every column, in the table's declared
\* column order, to the declared type of that same column; also when the header
\* of the pipe table lists the columns in another order than the schema.
C12_CastsUseDeclaredTypes ==
    (Selected /\ table.val.rows # <<>>) =>
        selects.val =
            Join([r \in 1..Len(table.val.rows) |->
                     DeclaredRowSelect(table.val.rows[r], table.val.columns)],
                 <<"\nunion all\n">>)

--------------------------------------------------------------------------
(* Claims about the encoder (SpecEncode) *)

\* the native types the encoder knows; a list is known when its elements are
RECURSIVE IsEncodable(_)
IsEncodable(value) ==
    IF value.t = "list"
    THEN \A i \in 1..Len(value.items) : IsEncodable(value.items[i])
    ELSE value.t \in {"str", "int", "float", "bool", "NoneType"}

\* the SQL literal of a known value, by its native type
RECURSIVE SqlLiteral(_)
SqlLiteral(value) ==
    IF value.t = "str" THEN "'" \o value.v \o "'"
    ELSE IF value.t = "bool" THEN (IF value = PyBool(TRUE) THEN "true" ELSE "false")
    ELSE IF value.t = "NoneType" THEN "null"
    ELSE IF value.t = "list"
    THEN "[" \o JoinStr([i \in 1..Len(value.items) |-> SqlLiteral(value.items[i])], ", ")
             \o "]"
    ELSE value.v

\* C13: native_to_sql encodes a value by its native type: a string in single
\* quotes, a number bare, a boolean as true / false, null as null, a list in
\* brackets with every element encoded the same way; a value of any other type
\* (also inside a list) raises TypeError.
C13_EncodesByNativeType ==
    pc = "encoded" =>
        IF IsEncodable(obj_arg)
        THEN sql.ok /\ sql.val = SqlLiteral(obj_arg)
        ELSE ~sql.ok /\ sql.err = "TypeError"

====
